---- MODULE Spec2Model ----
(***************************************************************************)
(* The versioned entry index ("Cache") of tman: an ordered list of         *)
(* entries, each a key (name, origin), a container uuid and a history of   *)
(* version strings, with push, predicate-driven pop, and persistence to a  *)
(* JSON file (Cache::new / Cache::end).                                    *)
(*                                                                         *)
(* The repository holds two builds of the index: the library               *)
(* (src/lib/cache.rs, used by src/lib/mod.rs) and the older binary         *)
(* (src/cache.rs, used by src/trash.rs and src/main.rs).  They differ in   *)
(* Entry::pop for VersionPredicate::Specific.  The variable build selects  *)
(* the one a behaviour runs; it never changes.                             *)
(***************************************************************************)
EXTENDS Integers, Sequences, FiniteSets, TLC

VARIABLES
    build,      \* "lib" (src/lib/cache.rs) or "bin" (src/cache.rs)
    entries,    \* Cache.entries : Vec<Entry>
    file,       \* the backing file: [exists, content : Seq(token), pos : Nat]
    phase,      \* "closed" (no Cache object), "open", "ended", "loaded"
    last,       \* the call that has just returned and what it returned;
                \* NoLast once the caller has taken the result
    committed,  \* history variable: what the last successful end() wrote
    store,      \* the storage root (TMan.data_path): its container directories
    run,        \* the run of TMan::main in progress: where it is, what its
                \* action did and returned
    outside,    \* the origin paths, outside the storage root: which version
                \* restore has put at each and is still there
    peer        \* a second process on the same home directory, while it is
                \* not the one taking steps: its Cache.entries and its run

vars == <<build, entries, file, phase, last, committed, store, run, outside,
          peer>>

---------------------------------------------------------------------------
(* Bounds and input sets *)

\* Total number of versions the index may hold (all histories together).
MaxVersions == 3

\* Canonical absolute origins of the files that get trashed.
Origins == {"/x/a", "/y/a", "/x/b"}

\* origin.file_name() as TMan::delete derives the name.
FileName(origin) ==
    CASE origin = "/x/a" -> "a"
      [] origin = "/y/a" -> "a"
      [] origin = "/x/b" -> "b"

\* Key::new(name, origin)
KeyNew(name, origin) == [name |-> name, origin |-> origin]

Keys == {KeyNew(FileName(o), o) : o \in Origins}

\* What format!("{}", Utc::now()) may return: the wall clock is not under
\* the program's control, so any of these at any call.  In string order
\* "t10" < "t2".
Versions == {"t10", "t2"}

\* What Uuid::new_v4() may return.
UuidSeq == <<"u1", "u2", "u3">>

Uuids == {UuidSeq[n] : n \in 1..Len(UuidSeq)}

\* Entry::new(key, uuid, history)
EntryNew(key, uuid, history) == [key |-> key, uuid |-> uuid, history |-> history]

\* VersionPredicate (lib: All, Latest, Specific; bin: Any, Newest, Specific)
VersionPredicates ==
    {[kind |-> "All", v |-> ""], [kind |-> "Latest", v |-> ""]}
        \cup {[kind |-> "Specific", v |-> v] : v \in Versions}

\* A key predicate is the set of keys it accepts.
KeyPredicates == SUBSET Keys

---------------------------------------------------------------------------
(* Sequence helpers (Vec operations) *)

\* Mutant of VecRemove: Vec::swap_remove, the last element takes the place
\* of the removed one.
VecSwapRemove(s, index) ==
    IF index < Len(s)
    THEN IF index + 1 = Len(s) THEN SubSeq(s, 1, index)
         ELSE SubSeq([s EXCEPT ![index + 1] = s[Len(s)]], 1, Len(s) - 1)
    ELSE s

\* Vec::remove(index), index counted from 0
\* (it panics when index >= len; no caller in the index reaches that, and
\* here the vector is then left as it is)
VecRemove(s, index) ==
    IF index < Len(s)
    THEN SubSeq(s, 1, index) \o SubSeq(s, index + 2, Len(s))
    ELSE s

TotalVersions(es) ==
    LET RECURSIVE Sum(_)
        Sum(i) == IF i > Len(es) THEN 0 ELSE Len(es[i].history) + Sum(i + 1)
    IN Sum(1)

\* The storage root: for each container id whether data_path/<uuid> exists
\* and the names of the version files in it.
NoDir == [dir |-> FALSE, files |-> {}]

EmptyStore == [u \in Uuids |-> NoDir]

\* No origin path holds a file that restore put there.
NoFiles == [o \in Origins |-> "none"]

\* No run of TMan::main has started.
NoRun == [pc |-> "idle", op |-> "none", ret |-> "ok", arg |-> "",
          atLoad |-> <<>>, sel |-> [some |-> FALSE, v |-> ""],
          vp |-> [kind |-> "All", v |-> ""], popped |-> <<>>, log |-> <<>>,
          pushed |-> <<>>, lines |-> <<>>, lost |-> <<>>,
          clash |-> FALSE, mishap |-> FALSE, story |-> "fresh"]

\* A second process that has not started.
NoPeer == [entries |-> <<>>, run |-> NoRun]

NoLast == [op |-> "none", ret |-> "ok", key |-> KeyNew("", ""), uuid |-> "",
           version |-> "", kp |-> {}, vp |-> [kind |-> "All", v |-> ""],
           popped |-> <<>>]

---------------------------------------------------------------------------
(* Cache::push *)

\* Mutant of FindKey: entries are looked up by name alone.
FindKeyByName(es, key) ==
    LET RECURSIVE Find(_)
        Find(i) == IF i > Len(es) THEN 0
                   ELSE IF es[i].key.name = key.name THEN i
                   ELSE Find(i + 1)
    IN Find(1)

\* The index of the first entry whose key is `key`, 0 when there is none
\* (the for loop with break of Cache::push).
FindKey(es, key) ==
    LET RECURSIVE Find(_)
        Find(i) == IF i > Len(es) THEN 0
                   ELSE IF es[i].key = key THEN i
                   ELSE Find(i + 1)
    IN Find(1)

\* The history held for `key`: that of its first entry, <<>> when absent.
HistoryOf(es, key) ==
    IF FindKey(es, key) = 0 THEN <<>> ELSE es[FindKey(es, key)].history

CountKey(es, key) == Cardinality({i \in 1..Len(es) : es[i].key = key})

HasKey(es, key) == \E i \in 1..Len(es) : es[i].key = key

Occurs(history, v) == \E j \in 1..Len(history) : history[j] = v

\* Mutant of EntryPush: inserts the new version at the front.
EntryPushFront(entry, version) ==
    [entry EXCEPT !.history = <<version>> \o @]

\* Entry::push
EntryPush(entry, version) == [entry EXCEPT !.history = Append(@, version)]

\* Mutant of CachePush: never looks the key up, always creates an entry.
CachePushNoMerge(es, key, version, newUuid) ==
    [entries |-> Append(es, EntryNew(key, newUuid, <<version>>)),
     uuid    |-> newUuid]

\* Mutant of CachePush: a push for a key in the index gives its entry a new
\* container id.
CachePushRenew(es, key, version, newUuid) ==
    LET i == FindKey(es, key) IN
    IF i # 0
    THEN [entries |-> [es EXCEPT ![i] = [EntryPush(es[i], version) EXCEPT
                                            !.uuid = newUuid]],
          uuid    |-> newUuid]
    ELSE [entries |-> Append(es, EntryNew(key, newUuid, <<version>>)),
          uuid    |-> newUuid]

\* Cache::push: [entries, uuid]; newUuid is what Uuid::new_v4() would give.
CachePush(es, key, version, newUuid) ==
    LET i == FindKey(es, key) IN
    IF i # 0
    THEN [entries |-> [es EXCEPT ![i] = EntryPush(es[i], version)],
          uuid    |-> es[i].uuid]
    ELSE [entries |-> Append(es, EntryNew(key, newUuid, <<version>>)),
          uuid    |-> newUuid]

UsedUuids(es) == {es[i].uuid : i \in 1..Len(es)}

\* Uuid::new_v4(): a random uuid, taken to differ from every uuid in the
\* index.
NewV4(es) == Uuids \ UsedUuids(es)

\* newUuid is drawn only when the key is not in the index.
Push(key, version, newUuid) ==
    /\ last = NoLast
    /\ phase \in {"open", "loaded"}
    /\ TotalVersions(entries) < MaxVersions
    /\ IF FindKey(entries, key) # 0
       THEN newUuid = UuidSeq[1]
       ELSE newUuid \in NewV4(entries)
    /\ LET r == CachePush(entries, key, version, newUuid) IN
       /\ entries' = r.entries
       /\ last' = [NoLast EXCEPT !.op = "push", !.key = key,
                                 !.uuid = r.uuid, !.version = version]
    /\ UNCHANGED <<build, file, phase, committed, store, run, outside, peer>>

---------------------------------------------------------------------------
(* Entry::pop *)

\* Each arm gives [popped, history, panic]: the versions removed, the history
\* left, and whether the arm panicked.

\* Mutant of PopAll: the history is cloned and not truncated.
PopAllKeep(history) ==
    [popped |-> history, history |-> history, panic |-> FALSE]

\* VersionPredicate::All (bin: Any): clone the history, truncate(0).
PopAll(history) ==
    [popped |-> history, history |-> <<>>, panic |-> FALSE]

\* Mutant of PopLatest: removes the oldest version (history.remove(0)).
PopOldest(history) ==
    IF Len(history) = 0
    THEN [popped |-> <<>>, history |-> history, panic |-> TRUE]
    ELSE [popped |-> <<history[1]>>, history |-> Tail(history), panic |-> FALSE]

\* VersionPredicate::Latest (bin: Newest): self.history.pop().unwrap()
PopLatest(history) ==
    IF Len(history) = 0
    THEN [popped |-> <<>>, history |-> history, panic |-> TRUE]
    ELSE [popped |-> <<history[Len(history)]>>,
          history |-> SubSeq(history, 1, Len(history) - 1),
          panic |-> FALSE]

\* Mutant of PopSpecificLib: falls back to the newest version when no
\* version equals the target.
PopSpecificOrNewest(history, target) ==
    IF \E i \in 1..Len(history) : history[i] = target
    THEN LET i == CHOOSE i \in 1..Len(history) :
                    /\ history[i] = target
                    /\ \A j \in 1..(i - 1) : history[j] # target
         IN [popped |-> <<history[i]>>, history |-> VecRemove(history, i - 1),
             panic |-> FALSE]
    ELSE [popped |-> <<history[Len(history)]>>,
          history |-> SubSeq(history, 1, Len(history) - 1), panic |-> FALSE]

\* Mutant of PopSpecificLib: when no version equals the target, all versions
\* are taken.
PopSpecificElseAll(history, target) ==
    IF \E i \in 1..Len(history) : history[i] = target
    THEN LET i == CHOOSE i \in 1..Len(history) :
                    /\ history[i] = target
                    /\ \A j \in 1..(i - 1) : history[j] # target
         IN [popped |-> <<history[i]>>, history |-> VecRemove(history, i - 1),
             panic |-> FALSE]
    ELSE [popped |-> history, history |-> <<>>, panic |-> FALSE]

\* VersionPredicate::Specific in src/lib/cache.rs: remove the first version
\* equal to the target, then break.
PopSpecificLib(history, target) ==
    LET RECURSIVE First(_)
        First(i) == IF i > Len(history) THEN 0
                    ELSE IF history[i] = target THEN i
                    ELSE First(i + 1)
        i == First(1)
    IN IF i = 0
       THEN [popped |-> <<>>, history |-> history, panic |-> FALSE]
       ELSE [popped |-> <<history[i]>>,
             history |-> VecRemove(history, i - 1),
             panic |-> FALSE]

\* VersionPredicate::Specific in src/cache.rs: collect the indices of all
\* versions equal to the target, then remove them one by one, each index
\* lowered by the number removed so far (shift_factor).
PopSpecificBin(history, target) ==
    LET indices == SelectSeq([j \in 1..Len(history) |-> j - 1],
                             LAMBDA ix : history[ix + 1] = target)
        RECURSIVE Rem(_, _, _)
        Rem(n, h, popped) ==
            IF n > Len(indices)
            THEN [popped |-> popped, history |-> h, panic |-> FALSE]
            ELSE LET at == indices[n] - (n - 1) IN
                 Rem(n + 1, VecRemove(h, at), Append(popped, h[at + 1]))
    IN Rem(1, history, <<>>)

\* Entry::pop of src/lib/cache.rs
EntryPopLib(history, vp) ==
    CASE vp.kind = "All"      -> PopAll(history)
      [] vp.kind = "Latest"   -> PopLatest(history)
      [] vp.kind = "Specific" -> PopSpecificLib(history, vp.v)

\* Entry::pop of src/cache.rs
EntryPopBin(history, vp) ==
    CASE vp.kind = "All"      -> PopAll(history)
      [] vp.kind = "Latest"   -> PopLatest(history)
      [] vp.kind = "Specific" -> PopSpecificBin(history, vp.v)

EntryPop(b, history, vp) ==
    IF b = "lib" THEN EntryPopLib(history, vp) ELSE EntryPopBin(history, vp)

---------------------------------------------------------------------------
(* Cache::pop *)

\* Mutant of RemoveEmptied: the emptied entries stay in the index.
RemoveEmptiedNone(es, indices) == es

\* Mutant of RemoveEmptied: no shift factor.
RemoveEmptiedNoShift(es, indices) ==
    LET RECURSIVE Rem(_, _)
        Rem(n, v) ==
            IF n > Len(indices) THEN v
            ELSE Rem(n + 1, VecRemove(v, indices[n]))
    IN Rem(1, es)

\* Mutant of RemoveEmptied: as many entries as were emptied are dropped from
\* the end of the list.
RemoveEmptiedTruncate(es, indices) ==
    SubSeq(es, 1, Len(es) - Len(indices))

\* Mutant of RemoveEmptied: only the first emptied entry is removed.
RemoveEmptiedFirstOnly(es, indices) ==
    IF Len(indices) = 0 THEN es ELSE VecRemove(es, indices[1])

\* The second loop of Cache::pop: remove the emptied entries, by index,
\* accounting for the vector shrinking.
RemoveEmptied(es, indices) ==
    LET RECURSIVE Rem(_, _)
        Rem(n, v) ==
            IF n > Len(indices) THEN v
            ELSE Rem(n + 1, VecRemove(v, indices[n] - (n - 1)))
    IN Rem(1, es)

\* The first loop of Cache::pop, from entry i on: pops the versions of each
\* entry the key predicate accepts, collects the snapshots and the (0-based)
\* indices of the entries it emptied.
PopLoop(b, es, kp, vp) ==
    LET RECURSIVE Loop(_, _)
        Loop(i, acc) ==
            IF i > Len(es) THEN acc
            ELSE IF es[i].key \notin kp THEN Loop(i + 1, acc)
            ELSE LET r == EntryPop(b, es[i].history, vp)
                     empty == Len(r.history) = 0
                     victim == EntryNew(es[i].key, es[i].uuid, r.popped)
                 IN Loop(i + 1,
                         [entries  |-> [acc.entries EXCEPT ![i].history = r.history],
                          popped   |-> Append(acc.popped,
                                              [empty |-> empty, entry |-> victim]),
                          indices  |-> IF empty THEN Append(acc.indices, i - 1)
                                       ELSE acc.indices,
                          occurred |-> TRUE,
                          panic    |-> acc.panic \/ r.panic])
    IN Loop(1, [entries |-> es, popped |-> <<>>, indices |-> <<>>,
                occurred |-> FALSE, panic |-> FALSE])

\* Mutant of CachePop: a pop on an index without entries returns Ok.
CachePopOkWhenEmpty(b, es, kp, vp) ==
    LET l == PopLoop(b, es, kp, vp) IN
    IF l.panic
    THEN [ret |-> "panic", entries |-> l.entries, popped |-> <<>>]
    ELSE [ret |-> IF l.occurred \/ es = <<>> THEN "ok"
                  ELSE "MissingTargetPredicate",
          entries |-> RemoveEmptied(l.entries, l.indices),
          popped |-> IF l.occurred THEN l.popped ELSE <<>>]

\* Mutant of CachePop: returns Ok whether or not a key matched.
CachePopAlwaysOk(b, es, kp, vp) ==
    LET l == PopLoop(b, es, kp, vp) IN
    [ret |-> "ok", entries |-> RemoveEmptied(l.entries, l.indices),
     popped |-> l.popped]

\* Cache::pop: [ret, entries, popped]; popped is a Vec<(bool, Entry)>.
\* A panic (Latest on an empty history) unwinds out of the first loop.
CachePop(b, es, kp, vp) ==
    LET l == PopLoop(b, es, kp, vp) IN
    IF l.panic
    THEN [ret |-> "panic", entries |-> l.entries, popped |-> <<>>]
    ELSE [ret |-> IF l.occurred THEN "ok" ELSE "MissingTargetPredicate",
          entries |-> RemoveEmptied(l.entries, l.indices),
          popped |-> IF l.occurred THEN l.popped ELSE <<>>]

Pop(kp, vp) ==
    /\ last = NoLast
    /\ phase \in {"open", "loaded"}
    /\ LET r == CachePop(build, entries, kp, vp) IN
       /\ entries' = r.entries
       /\ last' = [op |-> "pop", ret |-> r.ret, key |-> KeyNew("", ""),
                   uuid |-> "", version |-> "", kp |-> kp, vp |-> vp,
                   popped |-> r.popped]
       /\ phase' = IF r.ret = "panic" THEN "closed" ELSE phase
    /\ UNCHANGED <<build, file, committed, store, run, outside, peer>>

---------------------------------------------------------------------------
(* The caller takes what the call returned (let (uuid, version) = ...push, *)
(* let entries = ...pop(..)?, Cache::new(..)?, self.cache.end()?); the     *)
(* next call on the Cache comes after that.                                *)

Return ==
    /\ last # NoLast
    /\ last' = NoLast
    /\ UNCHANGED <<build, entries, file, phase, committed, store, run, outside, peer>>

---------------------------------------------------------------------------
(* The in-memory index, driven through its API from an empty index *)

NoCommit == [ok |-> FALSE, entries |-> <<>>, oldLen |-> 0]

Init ==
    /\ build = "lib"
    /\ entries = <<>>
    /\ file = [exists |-> TRUE, content |-> <<>>, pos |-> 0]
    /\ phase = "open"
    /\ last = NoLast
    /\ committed = NoCommit
    /\ store = EmptyStore
    /\ run = NoRun
    /\ outside = NoFiles
    /\ peer = NoPeer

Next ==
    \/ \E key \in Keys, version \in Versions, newUuid \in Uuids :
            Push(key, version, newUuid)
    \/ \E kp \in KeyPredicates, vp \in VersionPredicates : Pop(kp, vp)
    \/ Return

Spec == Init /\ [][Next]_vars

\* The same API on the index of the older binary (src/cache.rs).
InitBin ==
    /\ build = "bin"
    /\ entries = <<>>
    /\ file = [exists |-> TRUE, content |-> <<>>, pos |-> 0]
    /\ phase = "open"
    /\ last = NoLast
    /\ committed = NoCommit
    /\ store = EmptyStore
    /\ run = NoRun
    /\ outside = NoFiles
    /\ peer = NoPeer

SpecBin == InitBin /\ [][Next]_vars

---------------------------------------------------------------------------
(* The backing file: serde_json text, as a sequence of tokens.            *)
(* Punctuation and quoted strings are told apart; "," and ":" are left    *)
(* out.                                                                    *)

Punct(s) == [q |-> FALSE, s |-> s]
Quoted(s) == [q |-> TRUE, s |-> s]
Nul == Punct("NUL")

\* #[derive(Serialize)] for Entry and Key, in field order.
SerializeEntry(e) ==
    <<Punct("{"), Quoted("key"), Punct("{"),
          Quoted("name"), Quoted(e.key.name),
          Quoted("origin"), Quoted(e.key.origin), Punct("}"),
      Quoted("uuid"), Quoted(e.uuid),
      Quoted("history"), Punct("[")>>
        \o [j \in 1..Len(e.history) |-> Quoted(e.history[j])]
        \o <<Punct("]"), Punct("}")>>

\* Mutant of Serialize: only the last entry is written.
SerializeLastOnly(es) ==
    IF Len(es) = 0 THEN <<Punct("["), Punct("]")>>
    ELSE <<Punct("[")>> \o SerializeEntry(es[Len(es)]) \o <<Punct("]")>>

\* serde_json::to_writer of a Vec<Entry>
Serialize(es) ==
    LET RECURSIVE Items(_)
        Items(i) == IF i > Len(es) THEN <<>>
                    ELSE SerializeEntry(es[i]) \o Items(i + 1)
    IN <<Punct("[")>> \o Items(1) \o <<Punct("]")>>

\* Deserialize a Vec<String> starting at token i: [ok, val, next]
ParseHistory(t, i) ==
    LET RECURSIVE Items(_, _)
        Items(j, acc) ==
            IF j > Len(t) THEN [ok |-> FALSE, val |-> <<>>, next |-> j]
            ELSE IF t[j] = Punct("]") THEN [ok |-> TRUE, val |-> acc, next |-> j + 1]
            ELSE IF t[j].q THEN Items(j + 1, Append(acc, t[j].s))
            ELSE [ok |-> FALSE, val |-> <<>>, next |-> j]
    IN IF i <= Len(t) /\ t[i] = Punct("[")
       THEN Items(i + 1, <<>>)
       ELSE [ok |-> FALSE, val |-> <<>>, next |-> i]

\* Deserialize an Entry starting at token i: [ok, val, next].  The fields
\* are taken in the order Serialize writes them.
ParseEntry(t, i) ==
    LET bad == [ok |-> FALSE, val |-> EntryNew(KeyNew("", ""), "", <<>>), next |-> i]
    IN IF /\ i + 10 <= Len(t)
          /\ t[i] = Punct("{")
          /\ t[i + 1] = Quoted("key")
          /\ t[i + 2] = Punct("{")
          /\ t[i + 3] = Quoted("name")
          /\ t[i + 4].q
          /\ t[i + 5] = Quoted("origin")
          /\ t[i + 6].q
          /\ t[i + 7] = Punct("}")
          /\ t[i + 8] = Quoted("uuid")
          /\ t[i + 9].q /\ t[i + 9].s \in Uuids
          /\ t[i + 10] = Quoted("history")
       THEN LET h == ParseHistory(t, i + 11) IN
            IF h.ok /\ h.next <= Len(t) /\ t[h.next] = Punct("}")
            THEN [ok |-> TRUE,
                  val |-> EntryNew(KeyNew(t[i + 4].s, t[i + 6].s), t[i + 9].s, h.val),
                  next |-> h.next + 1]
            ELSE bad
       ELSE bad

\* serde_json::from_reader::<_, Vec<Entry>>: [ok, val].  Anything after the
\* closing bracket is an error (trailing characters), and so is an empty
\* input (EOF while parsing a value).
Deserialize(t) ==
    LET RECURSIVE Items(_, _)
        Items(i, acc) ==
            IF i > Len(t) THEN [ok |-> FALSE, val |-> <<>>]
            ELSE IF t[i] = Punct("]")
                 THEN [ok |-> i = Len(t), val |-> IF i = Len(t) THEN acc ELSE <<>>]
            ELSE LET e == ParseEntry(t, i) IN
                 IF e.ok THEN Items(e.next, Append(acc, e.val))
                 ELSE [ok |-> FALSE, val |-> <<>>]
    IN IF Len(t) > 0 /\ t[1] = Punct("[")
       THEN Items(2, <<>>)
       ELSE [ok |-> FALSE, val |-> <<>>]

\* File::set_len
FileSetLen(f, n) ==
    [f EXCEPT !.content = [j \in 1..n |-> IF j <= Len(@) THEN @[j] ELSE Nul]]

\* Seek::seek(SeekFrom::Start(p))
FileSeek(f, p) == [f EXCEPT !.pos = p]

\* Write data at the file position: overwrites what is there, extends the
\* file, and leaves a hole of NULs when the position is past the end.
FileWrite(f, data) ==
    LET old == f.content
        end == f.pos + Len(data)
        len == IF end > Len(old) THEN end ELSE Len(old)
    IN [f EXCEPT
          !.content = [j \in 1..len |->
                          IF j > f.pos /\ j <= end THEN data[j - f.pos]
                          ELSE IF j <= Len(old) THEN old[j]
                          ELSE Nul],
          !.pos = end]

\* OpenOptions::new().read(true).write(true).create(true).open(path)
FileOpen(f) == [exists |-> TRUE, content |-> f.content, pos |-> 0]

---------------------------------------------------------------------------
(* Cache::new *)

\* from_reader(BufReader::new(&file)).unwrap_or(vec![]): every error of the
\* deserializer is replaced by the empty list.
LoadEntries(content) ==
    IF Deserialize(content).ok THEN Deserialize(content).val ELSE <<>>

\* Mutant of New: a deserializer error is returned as InvalidJSON instead of
\* being replaced by the empty list.
NewStrict(openOk) ==
    /\ last = NoLast
    /\ phase \in {"closed", "ended"}
    /\ IF openOk /\ Deserialize(file.content).ok
       THEN /\ entries' = Deserialize(file.content).val
            /\ file' = [FileOpen(file) EXCEPT !.pos = Len(file.content)]
            /\ phase' = "loaded"
            /\ last' = [NoLast EXCEPT !.op = "new", !.ret = "ok"]
       ELSE /\ entries' = <<>>
            /\ file' = IF openOk THEN FileOpen(file) ELSE file
            /\ phase' = "closed"
            /\ last' = [NoLast EXCEPT !.op = "new",
                                      !.ret = IF openOk THEN "InvalidJSON"
                                              ELSE "Unknown"]
    /\ UNCHANGED <<build, committed, store, run, outside, peer>>

\* openOk: whether open() succeeded (it is the only `?` of Cache::new).
New(openOk) ==
    /\ last = NoLast
    /\ phase \in {"closed", "ended"}
    /\ IF openOk
       THEN /\ entries' = LoadEntries(file.content)
            /\ file' = [FileOpen(file) EXCEPT !.pos = Len(file.content)]
            /\ phase' = "loaded"
            /\ last' = [NoLast EXCEPT !.op = "new", !.ret = "ok"]
       ELSE /\ entries' = <<>>
            /\ file' = file
            /\ phase' = "closed"
            /\ last' = [NoLast EXCEPT !.op = "new", !.ret = "Unknown"]
    /\ UNCHANGED <<build, committed, store, run, outside, peer>>

---------------------------------------------------------------------------
(* Cache::end *)

\* Mutant of EndWrite: no set_len(0) before the write.
EndWriteNoTruncate(f, data) == FileWrite(FileSeek(f, 0), data)

\* set_len(0), seek(Start(0)), then the serialized entries through the
\* BufWriter.
EndWrite(f, data) == FileWrite(FileSeek(FileSetLen(f, 0), 0), data)

\* Where an I/O error may strike in Cache::end.  The BufWriter is dropped
\* inside to_writer and its drop discards the error of the final flush, so a
\* failing write of a list smaller than the buffer still returns Ok; what
\* reached the file is then some strict prefix of the text.
EndFaults == {"none", "set_len", "seek", "write"}

End(fault) ==
    /\ last = NoLast
    /\ phase \in {"open", "loaded"}
    /\ phase' = "ended"
    /\ LET data == Serialize(entries) IN
       CASE fault = "none" ->
               /\ file' = EndWrite(file, data)
               /\ last' = [NoLast EXCEPT !.op = "end", !.ret = "ok"]
               /\ committed' = [ok |-> TRUE, entries |-> entries,
                                oldLen |-> Len(file.content)]
         [] fault = "set_len" ->
               /\ file' = file
               /\ last' = [NoLast EXCEPT !.op = "end", !.ret = "Unknown"]
               /\ committed' = NoCommit
         [] fault = "seek" ->
               /\ file' = FileSetLen(file, 0)
               /\ last' = [NoLast EXCEPT !.op = "end", !.ret = "Unknown"]
               /\ committed' = NoCommit
         [] fault = "write" ->
               /\ \E n \in {0, Len(data) - 1} :
                     file' = EndWrite(file, SubSeq(data, 1, n))
               /\ last' = [NoLast EXCEPT !.op = "end", !.ret = "ok"]
               /\ committed' = NoCommit
    /\ UNCHANGED <<build, entries, store, run, outside, peer>>

---------------------------------------------------------------------------
(* Persistence: commit and load, applied to every index and to files of   *)
(* every kind (specification SpecFile)                                     *)

Histories(n) == UNION {[1..m -> Versions] : m \in 1..n}

KeysOf(es) == {es[i].key : i \in 1..Len(es)}

\* The indexes push and pop can build: distinct keys, distinct uuids,
\* non-empty histories, within the bound.
IndexStates ==
    LET Extend(es) ==
            UNION {{Append(es, EntryNew(k, u, h)) :
                        h \in Histories(MaxVersions - TotalVersions(es))} :
                   k \in Keys \ KeysOf(es), u \in Uuids \ UsedUuids(es)}
        RECURSIVE UpTo(_)
        UpTo(n) == IF n = 0 THEN {<<>>}
                   ELSE UpTo(n - 1) \cup UNION {Extend(es) : es \in UpTo(n - 1)}
    IN UpTo(Cardinality(Keys))

\* What the file at the cache path may hold when a Cache is opened on it:
\* nothing (missing or empty), text that is no JSON value, JSON of another
\* shape, a list cut off in the middle, and two earlier commits.
PriorContents ==
    { <<>>,
      <<Punct("junk")>>,
      <<Quoted("junk")>>,
      <<Punct("["), Punct("{"), Quoted("key")>>,
      Serialize(<<EntryNew(KeyNew("a", "/x/a"), "u1", <<"t2">>)>>),
      Serialize(<<EntryNew(KeyNew("a", "/x/a"), "u1", <<"t2">>),
                  EntryNew(KeyNew("a", "/y/a"), "u2", <<"t10">>),
                  EntryNew(KeyNew("b", "/x/b"), "u3", <<"t2">>)>>) }

PriorFiles ==
    {[exists |-> FALSE, content |-> <<>>, pos |-> 0]}
        \cup {[exists |-> TRUE, content |-> c, pos |-> 0] : c \in PriorContents}

\* Either no Cache is open yet, or a Cache was opened on the file (which was
\* read to its end) and has been pushed and popped into some index since.
InitFile ==
    /\ build = "lib"
    /\ last = NoLast
    /\ committed = NoCommit
    /\ store = EmptyStore
    /\ run = NoRun
    /\ outside = NoFiles
    /\ peer = NoPeer
    /\ \/ /\ phase = "closed"
          /\ file \in PriorFiles
          /\ entries = <<>>
       \/ /\ phase = "open"
          /\ \E f \in PriorFiles :
                file = [FileOpen(f) EXCEPT !.pos = Len(f.content)]
          /\ entries \in IndexStates

NextFile ==
    \/ \E openOk \in BOOLEAN : New(openOk)
    \/ \E fault \in EndFaults : End(fault)
    \/ Return

SpecFile == InitFile /\ [][NextFile]_vars

---------------------------------------------------------------------------
(* TMan (src/lib/mod.rs): what restore is called with *)

\* Option<&str>
None == [some |-> FALSE, v |-> ""]
Some(v) == [some |-> TRUE, v |-> v]

\* The values of --version, --restore and --origin.
Selectors == {None} \cup {Some(v) : v \in {"all", "latest", "newest", "t2"}}

\* The files that get deleted: two of one name.
Targets == {"/x/a", "/y/a"}

Names == {FileName(o) : o \in Origins}

OriginFilters == {None} \cup {Some(o) : o \in {"/x/a", "/x/b"}}

\* The closure restore passes as the key predicate.
KeyPredicateOf(name, origin) ==
    {k \in Keys : k.name = name /\ (origin.some => k.origin = origin.v)}

\* Mutant of VersionPredicateOfLib: an absent selector restores all versions.
VersionPredicateAbsentAll(sel) ==
    IF sel = Some("all") \/ sel = None THEN [kind |-> "All", v |-> ""]
    ELSE IF sel = Some("latest") THEN [kind |-> "Latest", v |-> ""]
    ELSE [kind |-> "Specific", v |-> sel.v]

\* The match on target_version of TMan::restore (src/lib/mod.rs).
VersionPredicateOfLib(sel) ==
    IF sel = Some("all") THEN [kind |-> "All", v |-> ""]
    ELSE IF sel = Some("latest") \/ sel = None THEN [kind |-> "Latest", v |-> ""]
    ELSE [kind |-> "Specific", v |-> sel.v]

\* The match on target_version of Trash::restore (src/trash.rs).
VersionPredicateOfBin(sel) ==
    IF sel = Some("all") THEN [kind |-> "All", v |-> ""]
    ELSE IF sel = Some("newest") THEN [kind |-> "Latest", v |-> ""]
    ELSE IF sel.some THEN [kind |-> "Specific", v |-> sel.v]
    ELSE [kind |-> "Latest", v |-> ""]

VersionPredicateOf(b, sel) ==
    IF b = "lib" THEN VersionPredicateOfLib(sel) ELSE VersionPredicateOfBin(sel)

\* Mutant of Destination: the origin verbatim, however many versions.
DestinationVerbatim(entry, version) == entry.key.origin

\* Where restore moves `version` of the snapshot `entry`.
Destination(entry, version) ==
    IF Len(entry.history) > 1
    THEN entry.key.origin \o "_" \o version
    ELSE entry.key.origin

---------------------------------------------------------------------------
(* The storage root *)

\* A PathBuf below data_path; PathBuf::default() is the empty path.
DefaultPath == [rooted |-> FALSE, parts |-> <<>>]

\* data_path.clone() with uuid and version pushed.
VersionPath(uuid, version) == [rooted |-> TRUE, parts |-> <<uuid, version>>]

\* data_path with uuid pushed.
ContainerPath(uuid) == [rooted |-> TRUE, parts |-> <<uuid>>]

\* PathBuf::pop: drops the last component (nothing to drop: unchanged).
PathPop(path) ==
    IF Len(path.parts) > 0
    THEN [path EXCEPT !.parts = SubSeq(@, 1, Len(@) - 1)]
    ELSE path

\* create_dir(data_path/uuid).unwrap_or_default()
CreateDir(st, uuid) == [st EXCEPT ![uuid].dir = TRUE]

\* rename(origin, data_path/uuid/version): replaces a file of that name.
RenameIn(st, uuid, version) == [st EXCEPT ![uuid].files = @ \cup {version}]

\* location.exists()
Exists(st, uuid, version) == st[uuid].dir /\ version \in st[uuid].files

\* Mutant of RenameOut: the file is copied, not moved.
RenameOutCopies(st, uuid, version) == st

\* rename(data_path/uuid/version, destination)
RenameOut(st, uuid, version) == [st EXCEPT ![uuid].files = @ \ {version}]

\* Mutant of RenameOnto: a destination that holds a file is left as it is.
RenameOntoIfFree(out, dest, version) ==
    IF dest \in Origins /\ out[dest] = "none"
    THEN [out EXCEPT ![dest] = version]
    ELSE out

\* rename(location, destination), seen from the destination: the file takes
\* the place of whatever is there.  Only the origin paths are followed, not
\* the destinations with a version suffix.
RenameOnto(out, dest, version) ==
    IF dest \in Origins THEN [out EXCEPT ![dest] = version] ELSE out

\* rename(origin, destination) in delete, seen from the origin: the path is
\* free afterwards.
RenameAway(out, origin) == [out EXCEPT ![origin] = "none"]

\* Mutant of RemoveDirAll: reports Ok and removes nothing.
RemoveDirAllNothing(st, path) == [ok |-> TRUE, store |-> st]

\* remove_dir_all(path): [ok, store].  A container directory goes with all
\* its files; data_path itself goes with every container; any other path
\* here is no directory.
RemoveDirAll(st, path) ==
    IF path.rooted /\ Len(path.parts) = 1 /\ st[path.parts[1]].dir
    THEN [ok |-> TRUE, store |-> [st EXCEPT ![path.parts[1]] = NoDir]]
    ELSE IF path.rooted /\ Len(path.parts) = 0
    THEN [ok |-> TRUE, store |-> EmptyStore]
    ELSE [ok |-> FALSE, store |-> st]

\* What restore and empty did to the storage root, in order.
RenameEvent(uuid, version, dest) ==
    [t |-> "rename", uuid |-> uuid, version |-> version, dest |-> dest]

RemoveEvent(path) ==
    [t |-> "remove_dir",
     uuid |-> IF Len(path.parts) > 0 THEN path.parts[1] ELSE "",
     version |-> "", dest |-> ""]

CountEvents(log, t) == Cardinality({n \in 1..Len(log) : log[n].t = t})

\* An I/O error that strikes the at-th call of one kind.
NoFault == [kind |-> "none", at |-> 0]

StorageFaults ==
    {NoFault} \cup {[kind |-> k, at |-> n] :
                        k \in {"rename", "remove_dir"}, n \in 1..2}

Strikes(fault, kind, log) ==
    fault.kind = kind /\ fault.at = CountEvents(log, kind) + 1

---------------------------------------------------------------------------
(* TMan::restore, after the pop *)

\* Mutant of OnMissing: a version whose file is absent is skipped.
OnMissingSkip(acc, version) == acc

\* Err(Error::MissingTarget(version.clone()))?
OnMissing(acc, version) ==
    [acc EXCEPT !.ret = "MissingTarget", !.arg = version]

\* Mutant of RemoveIfEmpty: the container is removed whatever the flag.
RemoveAlways(acc, empty, fault) ==
    LET path == PathPop(acc.location)
        r == RemoveDirAll(acc.store, path)
    IN IF Strikes(fault, "remove_dir", acc.log) \/ ~r.ok
       THEN [acc EXCEPT !.ret = "Unknown", !.location = path,
                        !.struck = Strikes(fault, "remove_dir", acc.log)]
       ELSE [acc EXCEPT !.store = r.store, !.location = path,
                        !.log = Append(@, RemoveEvent(path))]

\* if empty { location.pop(); remove_dir_all(&location)?; }
RemoveIfEmpty(acc, empty, fault) ==
    IF ~empty THEN acc
    ELSE LET path == PathPop(acc.location)
             r == RemoveDirAll(acc.store, path)
         IN IF Strikes(fault, "remove_dir", acc.log) \/ ~r.ok
            THEN [acc EXCEPT !.ret = "Unknown", !.location = path,
                             !.struck = Strikes(fault, "remove_dir", acc.log)]
            ELSE [acc EXCEPT !.store = r.store, !.location = path,
                             !.log = Append(@, RemoveEvent(path))]

\* The two loops of restore over the snapshots the pop returned:
\* [store, log, location, ret, arg, struck]; struck tells whether the I/O
\* fault was met.
RestoreLoop(st, popped, fault) ==
    LET RECURSIVE Snap(_, _), Vers(_, _, _)
        Vers(i, j, acc) ==
            LET e == popped[i].entry IN
            IF acc.ret # "ok" \/ j > Len(e.history) THEN acc
            ELSE LET version == e.history[j]
                     at == [acc EXCEPT !.location = VersionPath(e.uuid, version)]
                     dest == Destination(e, version)
                 IN IF ~Exists(acc.store, e.uuid, version)
                    THEN Vers(i, j + 1, OnMissing(at, version))
                    ELSE IF Strikes(fault, "rename", acc.log)
                    THEN [at EXCEPT !.ret = "Unknown", !.struck = TRUE]
                    ELSE Vers(i, j + 1,
                              [at EXCEPT
                                 !.store = RenameOut(@, e.uuid, version),
                                 !.log = Append(@, RenameEvent(e.uuid, version, dest))])
        Snap(i, acc) ==
            IF acc.ret # "ok" \/ i > Len(popped) THEN acc
            ELSE LET a == Vers(i, 1, acc) IN
                 IF a.ret # "ok" THEN a
                 ELSE Snap(i + 1, RemoveIfEmpty(a, popped[i].empty, fault))
    IN Snap(1, [store |-> st, log |-> <<>>, location |-> DefaultPath,
                ret |-> "ok", arg |-> "", struck |-> FALSE])

\* Mutant of EmptyLoop: only the container of the first snapshot is removed.
EmptyLoopFirstOnly(st, popped, fault) ==
    IF Len(popped) = 0
    THEN [store |-> st, log |-> <<>>, location |-> DefaultPath,
          ret |-> "ok", arg |-> "", struck |-> FALSE]
    ELSE LET path == ContainerPath(popped[1].entry.uuid)
             r == RemoveDirAll(st, path)
         IN [store |-> r.store, log |-> <<RemoveEvent(path)>>,
             location |-> path, ret |-> "ok", arg |-> "", struck |-> FALSE]

\* The loop of empty: remove_dir_all(data_path/uuid) for every snapshot.
EmptyLoop(st, popped, fault) ==
    LET RECURSIVE Snap(_, _)
        Snap(i, acc) ==
            IF acc.ret # "ok" \/ i > Len(popped) THEN acc
            ELSE LET path == ContainerPath(popped[i].entry.uuid)
                     r == RemoveDirAll(acc.store, path)
                 IN IF Strikes(fault, "remove_dir", acc.log) \/ ~r.ok
                    THEN [acc EXCEPT !.ret = "Unknown", !.location = path,
                                     !.struck = Strikes(fault, "remove_dir", acc.log)]
                    ELSE Snap(i + 1,
                              [acc EXCEPT !.store = r.store, !.location = path,
                                          !.log = Append(@, RemoveEvent(path))])
    IN Snap(1, [store |-> st, log |-> <<>>, location |-> DefaultPath,
                ret |-> "ok", arg |-> "", struck |-> FALSE])

\* The renames of a restore, in the order of its log, seen from the
\* destinations: [outside, lost], lost being the files that were at a
\* destination and were replaced.
Landed(out, log) ==
    LET RECURSIVE Go(_, _)
        Go(m, acc) ==
            IF m > Len(log) THEN acc
            ELSE IF log[m].t # "rename" THEN Go(m + 1, acc)
            ELSE Go(m + 1,
                    [outside |-> RenameOnto(acc.outside, log[m].dest,
                                            log[m].version),
                     lost |-> IF /\ log[m].dest \in Origins
                                 /\ acc.outside[log[m].dest] # "none"
                              THEN Append(acc.lost,
                                          [path |-> log[m].dest,
                                           content |-> acc.outside[log[m].dest]])
                              ELSE acc.lost])
    IN Go(1, [outside |-> out, lost |-> <<>>])

---------------------------------------------------------------------------
(* The runs of TMan::main (specification SpecApp): TMan::new, one action   *)
(* (a batch of deletes, a restore, a list or an empty), Cache::end.        *)

\* The scenario of two deletes of /x/a, a restore without selector and a
\* restore of all versions, on a fresh installation: how far a behaviour has
\* followed it ("fresh", then the last of its four operations done), "off"
\* once it has left it.
StoryTarget == "/x/a"

StoryNext(story, op, sel) ==
    CASE story = "fresh" /\ op = "delete" -> "deleted once"
      [] story = "deleted once" /\ op = "delete" -> "deleted twice"
      [] story = "deleted twice" /\ op = "restore" /\ sel = None
            -> "restored newest"
      [] story = "restored newest" /\ op = "restore" /\ sel = Some("all")
            -> "restored all"
      [] OTHER -> "off"

\* Mutant of AfterStep: main goes on after an error.
AfterStepIgnoreError(ret, okPc) == okPc

\* The `?` after each step of main: an error leaves main at once.
AfterStep(ret, okPc) == IF ret = "ok" THEN okPc ELSE "failed"

\* A mishap is a step that returns an error, an I/O error or a kill.  A
\* behaviour is followed to the end of the first run that meets one: the runs
\* before it all succeeded, and what the storage root and the cache file look
\* like when it ends is where the behaviour stops.

\* The faults that are I/O errors or kills; the others ("none", a target
\* that does not exist, a pattern that is no regular expression) are not.
IsIOFault(fault) == fault \notin {"none", "canonicalize", "pattern"}

\* The record of a step of the run r: what it was, what it returned and
\* whether it was a mishap.
Step(r, op, ret, okPc, fault) ==
    [NoRun EXCEPT !.pc = AfterStep(ret, okPc), !.op = op, !.ret = ret,
                  !.atLoad = r.atLoad,
                  !.clash = r.clash,
                  !.mishap = r.mishap \/ ret # "ok" \/ IsIOFault(fault),
                  !.story = IF ret = "ok" /\ ~IsIOFault(fault) THEN r.story
                            ELSE "off"]

StartFaults == {"none", "open", "settings"}

\* TMan::new: Cache::new, then Settings::new.
Start(fault) ==
    /\ run.pc \in {"idle", "done", "failed", "killed"}
    /\ ~run.mishap
    /\ IF fault = "open"
       THEN /\ entries' = <<>>
            /\ file' = file
            /\ run' = [Step(run, "new", "Unknown", "main", fault) EXCEPT
                          !.atLoad = file.content]
       ELSE /\ entries' = LoadEntries(file.content)
            /\ file' = [FileOpen(file) EXCEPT !.pos = Len(file.content)]
            /\ run' = [Step(run, "new",
                            IF fault = "settings" THEN "InvalidJSON" ELSE "ok",
                            "main", fault) EXCEPT
                          !.atLoad = file.content]
    /\ UNCHANGED <<build, phase, last, committed, store, outside, peer>>

\* Uuid::new_v4(): taken to differ from every container id in use.  The
\* program only compares container ids and uses them as directory names, so
\* which unused one comes out makes no difference: the first of UuidSeq.
NewV4App(es, st) ==
    LET free == {n \in 1..Len(UuidSeq) :
                    UuidSeq[n] \notin UsedUuids(es) /\ ~st[UuidSeq[n]].dir}
    IN {UuidSeq[n] : n \in {m \in free : \A k \in free : m <= k}}

DeleteFaults == {"none", "canonicalize", "rename"}

\* Mutant of BatchGoesOn: the batch goes on after a delete that failed.
BatchGoesOnAfterError(pc) == pc \in {"main", "deleting", "failed"}

\* files.try_for_each(|file| self.delete(..))?: the next file of the batch is
\* taken only while no delete has returned an error.
BatchGoesOn(pc) == pc \in {"main", "deleting"}

\* Mutant of RenameFailed: the push is undone.
RenameFailedRollBack(before, after) == before

\* rename(origin, destination)? returning the error: delete returns at once,
\* the index stays as push left it.
RenameFailed(before, after) == after

\* TMan::delete of one file of the batch.  canonicalize fails when the target
\* does not exist.  run.pushed holds what push was called with and returned,
\* and whether the file was moved.  Between the runs the user writes and
\* removes files at will: a target that exists is the file restore put there
\* or one written since, a target that does not exist has been removed.
Delete(target, version, newUuid, fault) ==
    /\ BatchGoesOn(run.pc)
    /\ LET key == KeyNew(FileName(target), target) IN
       IF fault = "canonicalize"
       THEN /\ version = "t2"
            /\ newUuid = UuidSeq[1]
            /\ entries' = entries
            /\ store' = store
            /\ outside' = RenameAway(outside, target)
            /\ run' = Step(run, "delete", "Unknown", "deleting", fault)
       ELSE /\ TotalVersions(entries) < MaxVersions
            /\ IF FindKey(entries, key) # 0
               THEN newUuid = UuidSeq[1]
               ELSE newUuid \in NewV4App(entries, store)
            /\ \E r \in {CachePush(entries, key, version, newUuid)} :
               \E made \in {CreateDir(store, r.uuid)} :
               \E ret \in {IF fault = "rename" THEN "Unknown" ELSE "ok"} :
               \E clash \in {Occurs(HistoryOf(entries, key), version)} :
                  /\ entries' = IF ret = "ok" THEN r.entries
                                ELSE RenameFailed(entries, r.entries)
                  /\ store' = IF ret = "ok"
                              THEN RenameIn(made, r.uuid, version)
                              ELSE made
                  /\ outside' = IF ret = "ok" THEN RenameAway(outside, target)
                                ELSE outside
                  /\ run' = [Step(run, "delete", ret, "deleting", fault) EXCEPT
                                !.pushed = <<[key |-> key, uuid |-> r.uuid,
                                             version |-> version,
                                             moved |-> ret = "ok"]>>,
                                !.clash = run.clash \/ clash,
                                !.story =
                                    IF /\ ret = "ok"
                                       /\ target = StoryTarget
                                       /\ ~clash
                                    THEN StoryNext(run.story, "delete", None)
                                    ELSE "off"]
    /\ UNCHANGED <<build, file, phase, last, committed, peer>>

\* TMan::restore
Restore(name, origin, sel, fault) ==
    /\ run.pc = "main"
    /\ \E vp \in {VersionPredicateOf(build, sel)} :
       \E r \in {CachePop(build, entries, KeyPredicateOf(name, origin), vp)} :
       \E l \in {RestoreLoop(store, r.popped, fault)} :
       \E ret \in {IF r.ret = "ok" THEN l.ret ELSE r.ret} :
       \E struck \in {IF r.ret = "ok" /\ l.struck THEN fault.kind ELSE "none"} :
       \E landed \in {Landed(outside, IF r.ret = "ok" THEN l.log ELSE <<>>)} :
          /\ entries' = r.entries
          /\ store' = IF r.ret = "ok" THEN l.store ELSE store
          /\ outside' = landed.outside
          /\ run' = [Step(run, "restore", ret, "acted", struck) EXCEPT
                        !.pc = IF r.ret = "panic" THEN "killed" ELSE @,
                        !.sel = sel, !.vp = vp,
                        !.lost = landed.lost,
                        !.popped = r.popped,
                        !.arg = IF r.ret = "ok" THEN l.arg ELSE "",
                        !.log = IF r.ret = "ok" THEN l.log ELSE <<>>,
                        !.story =
                            IF ret = "ok" /\ name = FileName(StoryTarget)
                            THEN StoryNext(run.story, "restore", sel)
                            ELSE "off"]
    /\ UNCHANGED <<build, file, phase, last, committed, peer>>

\* The values of --pattern; "(" is no regular expression, "" is what an
\* absent --pattern becomes.
Patterns == {"", "a", "b", "("}

\* Regex::new(pattern) returns Ok
IsRegex(pattern) == pattern # "("

\* Regex::is_match(name): the pattern is found somewhere in the name.  The
\* names are single letters, so a non-empty pattern is found in a name when
\* it is the name.
IsMatch(pattern, name) == pattern = "" \/ pattern = name

\* One line written to the terminal.
Line(t, name, origin, version) ==
    [t |-> t, name |-> name, origin |-> origin, version |-> version]

\* The lines TMan::list writes: a header, then each entry whose name the
\* pattern matches with its versions, newest first, then a notice when
\* nothing was shown; in simple mode the names only.
ListLines(es, pattern, simple) ==
    LET RECURSIVE Vers(_, _), Ents(_)
        Vers(h, j) == IF j < 1 THEN <<>>
                      ELSE <<Line("version", "", "", h[j])>> \o Vers(h, j - 1)
        Ents(i) ==
            IF i > Len(es) THEN <<>>
            ELSE IF ~IsMatch(pattern, es[i].key.name) THEN Ents(i + 1)
            ELSE IF simple
            THEN <<Line("name", es[i].key.name, "", "")>> \o Ents(i + 1)
            ELSE <<Line("entry", es[i].key.name, es[i].key.origin, "")>>
                    \o Vers(es[i].history, Len(es[i].history))
                    \o Ents(i + 1)
        show_all == pattern = ""
        empty == Ents(1) = <<>>
    IN IF simple THEN Ents(1)
       ELSE <<Line("header", "", "", "")>> \o Ents(1)
               \o (IF empty /\ show_all THEN <<Line("trash is empty", "", "", "")>>
                   ELSE IF empty THEN <<Line("no results", "", "", "")>>
                   ELSE <<>>)

ListFaults == {"none", "write_line"}

\* TMan::list, called with Regex::new(pattern)?.  An I/O error strikes the
\* first write_line.  run.arg holds the pattern, run.lines what was written.
List(pattern, simple, fault) ==
    /\ run.pc = "main"
    /\ LET lines == ListLines(entries, pattern, simple) IN
       IF ~IsRegex(pattern)
       THEN run' = [Step(run, "list", "InvalidRegex", "acted", "pattern")
                       EXCEPT !.arg = pattern]
       ELSE IF fault = "write_line" /\ lines # <<>>
       THEN run' = [Step(run, "list", "Unknown", "acted", fault)
                       EXCEPT !.arg = pattern]
       ELSE run' = [Step(run, "list", "ok", "acted", "none")
                       EXCEPT !.arg = pattern, !.lines = lines]
    /\ UNCHANGED <<build, entries, file, phase, last, committed, store, outside, peer>>

\* TMan::empty
Empty(fault) ==
    /\ run.pc = "main"
    /\ \E r \in {CachePop(build, entries, Keys, [kind |-> "All", v |-> ""])} :
       \E l \in {EmptyLoop(store, r.popped, fault)} :
       \E ret \in {IF r.ret = "ok" THEN l.ret ELSE r.ret} :
       \E struck \in {IF r.ret = "ok" /\ l.struck THEN fault.kind ELSE "none"} :
          /\ entries' = r.entries
          /\ store' = IF r.ret = "ok" THEN l.store ELSE store
          /\ run' = [Step(run, "empty", ret, "acted", struck) EXCEPT
                        !.popped = r.popped,
                        !.log = IF r.ret = "ok" THEN l.log ELSE <<>>,
                        !.story = "off"]
    /\ UNCHANGED <<build, file, phase, last, committed, outside, peer>>

\* self.cache.end()? at the end of main.
Commit(fault) ==
    /\ run.pc \in {"deleting", "acted"}
    /\ \E data \in {Serialize(entries)} :
       CASE fault = "none" ->
               /\ file' = EndWrite(file, data)
               /\ run' = Step(run, "end", "ok", "done", fault)
         [] fault = "set_len" ->
               /\ file' = file
               /\ run' = Step(run, "end", "Unknown", "done", fault)
         [] fault = "seek" ->
               /\ file' = FileSetLen(file, 0)
               /\ run' = Step(run, "end", "Unknown", "done", fault)
         [] fault = "write" ->
               /\ \E n \in {0, Len(data) - 1} :
                     file' = EndWrite(file, SubSeq(data, 1, n))
               /\ run' = Step(run, "end", "ok", "done", fault)
    /\ UNCHANGED <<build, entries, phase, last, committed, store, outside, peer>>

\* fn main with error::finish: an Err is printed as one line, an Ok as
\* nothing; main then returns (), which is exit status 0.
ProcessExit(ret) ==
    [printed |-> IF ret = "ok" THEN <<>> ELSE <<ret>>, status |-> 0]

InterruptPoints == {"now", "in_end"}

\* The process is killed: between two steps of main, or inside Cache::end
\* after set_len(0), with none or a part of the text written.
Interrupt(at) ==
    /\ IF at = "now"
       THEN /\ run.pc \in {"main", "deleting", "acted", "done"}
            /\ file' = file
            /\ run' = [run EXCEPT !.pc = "killed", !.mishap = TRUE,
                                  !.story = "off"]
       ELSE /\ run.pc \in {"deleting", "acted"}
            /\ \E data \in {Serialize(entries)} :
               \E n \in {0, Len(data) - 1} :
                  file' = EndWrite(file, SubSeq(data, 1, n))
            /\ run' = [Step(run, "end", run.ret, "", at) EXCEPT
                          !.pc = "killed"]
    /\ UNCHANGED <<build, entries, phase, last, committed, store, outside, peer>>

\* A fresh installation: no cache file, an empty storage root.
InitApp ==
    /\ build = "lib"
    /\ entries = <<>>
    /\ file = [exists |-> FALSE, content |-> <<>>, pos |-> 0]
    /\ phase = "closed"
    /\ last = NoLast
    /\ committed = NoCommit
    /\ store = EmptyStore
    /\ run = NoRun
    /\ outside = NoFiles
    /\ peer = NoPeer

NextApp ==
    \/ \E fault \in StartFaults : Start(fault)
    \/ \E target \in Targets, version \in Versions, newUuid \in Uuids,
          fault \in DeleteFaults : Delete(target, version, newUuid, fault)
    \/ \E name \in Names, origin \in OriginFilters, sel \in Selectors,
          fault \in StorageFaults : Restore(name, origin, sel, fault)
    \/ \E pattern \in Patterns, simple \in BOOLEAN, fault \in ListFaults :
            List(pattern, simple, fault)
    \/ \E fault \in StorageFaults : Empty(fault)
    \/ \E fault \in EndFaults : Commit(fault)
    \/ \E at \in InterruptPoints : Interrupt(at)

SpecApp == InitApp /\ [][NextApp]_vars

---------------------------------------------------------------------------
(* Two processes on one home directory (specification SpecTwo): they share *)
(* the cache file, the storage root and the origin paths; each has its own *)
(* Cache.entries and its own run of main.  The variables entries and run   *)
(* are those of the process that takes the steps, peer holds the other.    *)

\* The scheduler lets the other process take the next steps.
Switch ==
    /\ entries' = peer.entries
    /\ run' = peer.run
    /\ peer' = [entries |-> entries, run |-> run]
    /\ UNCHANGED <<build, file, phase, last, committed, store, outside>>

\* One run of a delete batch that meets no error by each process, on a
\* fresh installation.
NextTwo ==
    \/ run.pc = "idle" /\ Start("none")
    \/ \E target \in Targets, version \in Versions, newUuid \in Uuids :
            Delete(target, version, newUuid, "none")
    \/ Commit("none")
    \/ Switch

SpecTwo == InitApp /\ [][NextTwo]_vars

---------------------------------------------------------------------------
(* Properties of the in-memory index (specification Spec) *)

\* C1: every push(name, origin) leaves exactly one Entry for that Key, whose
\* history is the one it had before the push (empty when the Key was not in
\* the index) with the pushed version appended at the end.  By induction a
\* run of n pushes of one Key, begun without the Key, gives one Entry whose
\* history is the n versions in call order.
C1_PushAppendsInCallOrder ==
    [][last'.op = "push" =>
          /\ CountKey(entries', last'.key) = 1
          /\ HistoryOf(entries', last'.key)
                = HistoryOf(entries, last'.key) \o <<last'.version>>]_vars

\* Three pushes of one Key and nothing else: one Entry, history of length 3.
C1_Witness ==
    /\ last.op = "push"
    /\ Len(entries) = 1
    /\ entries[1].key = last.key
    /\ Len(entries[1].history) = 3
    /\ entries[1].history[3] = last.version

\* C2: no two Entries of the index have the same Key.
C2_KeysUnique ==
    \A i, j \in 1..Len(entries) :
        i # j => entries[i].key # entries[j].key

\* A Key pushed twice next to another Entry of the same name.
C2_Witness ==
    /\ Len(entries) = 2
    /\ entries[1].key.name = entries[2].key.name
    /\ Len(entries[1].history) = 2
    /\ last.op = "push"
    /\ last.key = entries[1].key

\* C3: every Entry in the index has a non-empty history.
C3_HistoriesNonEmpty ==
    \A i \in 1..Len(entries) : Len(entries[i].history) > 0

\* A pop that emptied one matched Entry and left versions in another.
C3_Witness ==
    /\ last.op = "pop"
    /\ last.ret = "ok"
    /\ \E n, m \in 1..Len(last.popped) :
            /\ last.popped[n].empty
            /\ ~last.popped[m].empty
            /\ ~HasKey(entries, last.popped[n].entry.key)
            /\ HasKey(entries, last.popped[m].entry.key)

\* C4: after a successful pop(keyPredicate, All) no Entry of the index has
\* a Key the key predicate accepts.
C4_PopAllLeavesNoMatch ==
    (last.op = "pop" /\ last.ret = "ok" /\ last.vp.kind = "All") =>
        \A i \in 1..Len(entries) : entries[i].key \notin last.kp

\* pop(kp, All) that removed two Entries and left a third one.
C4_Witness ==
    /\ last.op = "pop"
    /\ last.ret = "ok"
    /\ last.vp.kind = "All"
    /\ Len(last.popped) = 2
    /\ Len(entries) = 1

\* C5: a pop whose key predicate accepts the Key of no Entry returns
\* MissingTargetPredicate and leaves the index as it was.
C5_PopNoMatchIsNoOp ==
    [][(last'.op = "pop" /\ \A i \in 1..Len(entries) : entries[i].key \notin last'.kp)
          => (last'.ret = "MissingTargetPredicate" /\ entries' = entries)]_vars

\* A failed pop on a non-empty index, with a predicate that accepts a Key.
C5_Witness ==
    /\ last.op = "pop"
    /\ last.ret = "MissingTargetPredicate"
    /\ last.kp # {}
    /\ Len(entries) = 2

\* C6: when the key predicate accepts an Entry and the version predicate
\* matches none of its versions, pop returns Ok with a snapshot of that
\* Entry holding no versions and flagged not emptied, and the Entry keeps
\* its history.
C6_NoVersionMatchIsOk ==
    [][last'.op = "pop" =>
          \A i \in 1..Len(entries) :
              ( /\ entries[i].key \in last'.kp
                /\ last'.vp.kind = "Specific"
                /\ ~Occurs(entries[i].history, last'.vp.v) )
              => /\ last'.ret = "ok"
                 /\ \E n \in 1..Len(last'.popped) :
                        /\ last'.popped[n].entry
                              = EntryNew(entries[i].key, entries[i].uuid, <<>>)
                        /\ ~last'.popped[n].empty
                 /\ HistoryOf(entries', entries[i].key) = entries[i].history]_vars

\* A successful pop with an empty snapshot next to a non-empty one.
C6_Witness ==
    /\ last.op = "pop"
    /\ last.ret = "ok"
    /\ last.vp.kind = "Specific"
    /\ \E n, m \in 1..Len(last.popped) :
            /\ last.popped[n].entry.history = <<>>
            /\ ~last.popped[n].empty
            /\ HasKey(entries, last.popped[n].entry.key)
            /\ last.popped[m].entry.history # <<>>

\* C7: pop with Latest removes from each matched Entry exactly the version
\* at the last position of its history and returns it in the snapshot.
C7_LatestPopsLastAppended ==
    [][(last'.op = "pop" /\ last'.vp.kind = "Latest") =>
          \A i \in 1..Len(entries) :
              entries[i].key \in last'.kp =>
                  LET h == entries[i].history IN
                  /\ last'.ret = "ok"
                  /\ \E n \in 1..Len(last'.popped) :
                        last'.popped[n].entry
                            = EntryNew(entries[i].key, entries[i].uuid, <<h[Len(h)]>>)
                  /\ HistoryOf(entries', entries[i].key) = SubSeq(h, 1, Len(h) - 1)]_vars

\* From the history t10, t2, t10 Latest popped "t10", appended last,
\* while "t2", the greatest string, stays in the history.
C7_Witness ==
    /\ last.op = "pop"
    /\ last.ret = "ok"
    /\ last.vp.kind = "Latest"
    /\ \E n \in 1..Len(last.popped) :
            /\ last.popped[n].entry.history = <<"t10">>
            /\ HistoryOf(entries, last.popped[n].entry.key) = <<"t10", "t2">>

\* C8: pop with Specific(v) removes from each matched Entry every version
\* equal to v and returns all of them; no version equal to v remains.
C8_SpecificRemovesEveryOccurrence ==
    [][(last'.op = "pop" /\ last'.vp.kind = "Specific") =>
          \A i \in 1..Len(entries) :
              entries[i].key \in last'.kp =>
                  LET h == entries[i].history
                      IsV(x) == x = last'.vp.v
                      NotV(x) == x # last'.vp.v
                  IN /\ \E n \in 1..Len(last'.popped) :
                            last'.popped[n].entry
                                = EntryNew(entries[i].key, entries[i].uuid,
                                           SelectSeq(h, IsV))
                     /\ HistoryOf(entries', entries[i].key) = SelectSeq(h, NotV)]_vars

\* The keys of the entries, in index order (what Cache::entries gives).
KeySeq(es) == [i \in 1..Len(es) |-> es[i].key]

\* s is t with some elements left out, the others in the order of t.
IsSubSeq(s, t) ==
    LET RECURSIVE Go(_, _)
        Go(i, j) == IF i > Len(s) THEN TRUE
                    ELSE IF j > Len(t) THEN FALSE
                    ELSE IF s[i] = t[j] THEN Go(i + 1, j + 1)
                    ELSE Go(i, j + 1)
    IN Go(1, 1)

Count(s, v) == Cardinality({j \in 1..Len(s) : s[j] = v})

\* C27: a push for a Key in the index returns the uuid of its Entry and
\* adds no Entry; a push for a Key not in the index appends an Entry with
\* that Key, a history of the one new version and a uuid no Entry of the
\* index has; and no push or pop changes the uuid of an Entry that stays in
\* the index.
C27_ContainerIdStable ==
    [][ /\ last'.op = "push" =>
            IF HasKey(entries, last'.key)
            THEN /\ last'.uuid = entries[FindKey(entries, last'.key)].uuid
                 /\ Len(entries') = Len(entries)
            ELSE /\ entries' = Append(entries,
                                      EntryNew(last'.key, last'.uuid,
                                               <<last'.version>>))
                 /\ last'.uuid \notin UsedUuids(entries)
        /\ \A i \in 1..Len(entries) : \A j \in 1..Len(entries') :
              entries'[j].key = entries[i].key
                  => entries'[j].uuid = entries[i].uuid ]_vars

\* A second version pushed to the second Entry: the uuid returned is the one
\* the Entry got when it was created.
C27_Witness ==
    /\ last.op = "push"
    /\ Len(entries) = 2
    /\ last.key = entries[2].key
    /\ Len(entries[2].history) = 2
    /\ last.uuid = entries[2].uuid
    /\ last.uuid # entries[1].uuid

\* C28: a pop leaves the surviving Entries in the order they had and the
\* surviving versions of each history in the order they had; a push leaves
\* the Entries in their order, a new Entry coming last, and the histories of
\* the other Entries as they were.
C28_OrderPreserved ==
    [][ /\ last'.op = "pop" =>
            /\ LET Survives(k) == HasKey(entries', k)
               IN KeySeq(entries') = SelectSeq(KeySeq(entries), Survives)
            /\ \A j \in 1..Len(entries') :
                  IsSubSeq(entries'[j].history,
                           HistoryOf(entries, entries'[j].key))
        /\ last'.op = "push" =>
            /\ KeySeq(entries')
                  = IF HasKey(entries, last'.key) THEN KeySeq(entries)
                    ELSE Append(KeySeq(entries), last'.key)
            /\ \A i \in 1..Len(entries) :
                  entries[i].key # last'.key => entries'[i] = entries[i] ]_vars

\* A pop that removed one whole Entry out of three.
C28_Witness ==
    /\ last.op = "pop"
    /\ last.ret = "ok"
    /\ Len(last.popped) = 1
    /\ last.popped[1].empty
    /\ Len(entries) = 2
    /\ entries[1].key.origin = "/y/a"
    /\ entries[2].key.origin = "/x/b"

\* C29: in the result of a successful pop a snapshot is flagged emptied if
\* and only if the pop took every version of the Entry's history, and if and
\* only if the Entry is no longer in the index.
C29_EmptiedFlag ==
    [][(last'.op = "pop" /\ last'.ret = "ok") =>
          \A n \in 1..Len(last'.popped) :
              LET e == last'.popped[n].entry
                  before == HistoryOf(entries, e.key)
              IN /\ last'.popped[n].empty
                    <=> (before # <<>> /\ e.history = before)
                 /\ last'.popped[n].empty <=> ~HasKey(entries', e.key)]_vars

\* The newest version popped from two Entries that had one version each:
\* both flagged, both gone.
C29_Witness ==
    /\ last.op = "pop"
    /\ last.ret = "ok"
    /\ last.vp.kind = "Latest"
    /\ Len(last.popped) = 2
    /\ last.popped[1].empty
    /\ last.popped[2].empty
    /\ entries = <<>>

\* C30: a successful pop returns one snapshot for each Entry whose Key the
\* key predicate accepts, in index order, with the Key and uuid of the
\* Entry; the versions of the snapshot and the history left to the Entry
\* are each in the order of the history before the pop, and together they
\* hold each version as many times as that history did.
C30_PopPartitionsHistory ==
    [][(last'.op = "pop" /\ last'.ret = "ok") =>
          LET Accepted(e) == e.key \in last'.kp
              matched == SelectSeq(entries, Accepted)
          IN /\ Len(last'.popped) = Len(matched)
             /\ \A n \in 1..Len(matched) :
                   LET snap == last'.popped[n].entry
                       rest == HistoryOf(entries', matched[n].key)
                   IN /\ snap.key = matched[n].key
                      /\ snap.uuid = matched[n].uuid
                      /\ IsSubSeq(snap.history, matched[n].history)
                      /\ IsSubSeq(rest, matched[n].history)
                      /\ \A v \in Versions :
                            Count(snap.history, v) + Count(rest, v)
                                = Count(matched[n].history, v) ]_vars

\* "t2" popped out of the middle of t10, t2, t10.
C30_Witness ==
    /\ last.op = "pop"
    /\ last.ret = "ok"
    /\ Len(last.popped) = 1
    /\ last.popped[1].entry.history = <<"t2">>
    /\ HistoryOf(entries, last.popped[1].entry.key) = <<"t10", "t10">>

\* C33: a pop leaves the Entries whose Key the key predicate does not accept
\* as they were (Key, uuid, history) and in the order they had, however many
\* accepted Entries it removes and wherever they are.
C33_PopFrame ==
    [][last'.op = "pop" =>
          LET NotAccepted(e) == e.key \notin last'.kp
          IN SelectSeq(entries', NotAccepted)
                = SelectSeq(entries, NotAccepted)]_vars

\* Two Entries removed by one pop, the Entries of /x/a and /x/b; the Entry
\* of /y/a, which the predicate did not accept, is what is left.
C33_Witness ==
    /\ last.op = "pop"
    /\ last.ret = "ok"
    /\ Len(last.popped) = 2
    /\ last.popped[1].empty
    /\ last.popped[2].empty
    /\ {last.popped[1].entry.key.origin, last.popped[2].entry.key.origin}
          = {"/x/a", "/x/b"}
    /\ Len(entries) = 1
    /\ entries[1].key \notin last.kp

---------------------------------------------------------------------------
(* Properties of persistence (specification SpecFile) *)

\* C9: an index loaded by Cache::new right after a Cache::end that met no
\* I/O error is the index that end() committed: the same Entries in the same
\* order, each with its Key, uuid and history.
C9_CommitLoadRoundTrip ==
    (phase = "loaded" /\ committed.ok) => entries = committed.entries

\* Reloaded after a commit that replaced a longer file by a shorter text
\* holding two Entries.
C9_Witness ==
    /\ phase = "loaded"
    /\ last.op = "new"
    /\ committed.ok
    /\ committed.oldLen > Len(file.content)
    /\ Len(entries) = 2
    /\ Len(entries[1].history) = 2

\* C11: Cache::new on a path whose file is missing or empty returns Ok with
\* an index of zero entries (and the file exists afterwards); the only way
\* it fails is an I/O error of open() itself.
C11_MissingOrEmptyLoadsEmpty ==
    (last.op = "new" /\ file.content = <<>> /\ last.ret # "Unknown")
        => /\ last.ret = "ok"
           /\ phase = "loaded"
           /\ entries = <<>>
           /\ file.exists

\* A Cache opened on a path that holds no text: an empty index.
C11_Witness ==
    /\ last.op = "new"
    /\ last.ret = "ok"
    /\ phase = "loaded"
    /\ file.content = <<>>
    /\ file.exists
    /\ entries = <<>>

\* C10: loading a non-empty file that does not deserialize is an error, and
\* no index comes out of it.
C10_MalformedLoadFails ==
    (last.op = "new" /\ file.content # <<>> /\ ~Deserialize(file.content).ok)
        => (last.ret # "ok" /\ phase # "loaded")

---------------------------------------------------------------------------
(* Properties of the runs of main (specification SpecApp) *)

\* The (uuid, version) pairs of the snapshots a pop returned, in the order
\* restore goes through them.
Flat(popped) ==
    LET RECURSIVE Go(_)
        Go(n) == IF n > Len(popped) THEN <<>>
                 ELSE [j \in 1..Len(popped[n].entry.history) |->
                          [uuid |-> popped[n].entry.uuid,
                           version |-> popped[n].entry.history[j]]]
                      \o Go(n + 1)
    IN Go(1)

\* The (uuid, version) pairs a log moved out of the storage root, in order.
Renames(log) ==
    LET IsRename(ev) == ev.t = "rename"
        moved == SelectSeq(log, IsRename)
    IN [j \in 1..Len(moved) |->
           [uuid |-> moved[j].uuid, version |-> moved[j].version]]

Range(seq) == {seq[j] : j \in 1..Len(seq)}

\* C12: the cache file changes only in the commit (Cache::end) of a run, and
\* the commit is executed only after an action (delete batch, restore, list
\* or empty) all of whose steps returned Ok; a run in which a step before the
\* commit returned an error ends with the file holding what it held at load.
C12_FileRewrittenOnlyByCommit ==
    [][ /\ file'.content # file.content
            => run'.op = "end" /\ run.pc \in {"deleting", "acted"}
        /\ (run'.op = "end" /\ run.op # "end")
            => /\ run.ret = "ok"
               /\ run.op \in {"delete", "restore", "list", "empty"}
        /\ (run'.pc = "failed" /\ run'.op # "end")
            => file'.content = run'.atLoad ]_vars

\* A restore that failed half way, after the index in memory had changed:
\* the file still holds the index of the earlier commit.
C12_Witness ==
    /\ run.pc = "failed"
    /\ run.op = "restore"
    /\ run.ret = "MissingTarget"
    /\ run.atLoad # <<>>
    /\ file.content = run.atLoad
    /\ entries # LoadEntries(file.content)

\* C13: when the process is killed, the cache file holds either the whole
\* text it held at load or the whole text of the new index.
C13_InterruptLeavesCommittedState ==
    run.pc = "killed"
        => file.content = run.atLoad \/ file.content = Serialize(entries)

\* The storage root holds exactly one container per Entry of `es`, with
\* exactly one file per version of its history.
StorageMatches(es, st) ==
    /\ \A i, j \in 1..Len(es) : i # j => es[i].uuid # es[j].uuid
    /\ \A u \in Uuids : st[u].dir <=> u \in UsedUuids(es)
    /\ \A i \in 1..Len(es) :
          /\ st[es[i].uuid].files = Range(es[i].history)
          /\ Cardinality(st[es[i].uuid].files) = Len(es[i].history)

\* C14: as long as every step returned Ok, no I/O error or kill struck and no
\* Entry was given a version id it already held, the storage root holds
\* exactly one container directory per Entry of the index in memory, named
\* by its uuid, with exactly one file per version of its history.
C14_StorageMatchesIndex ==
    (~run.mishap /\ ~run.clash) => StorageMatches(entries, store)

\* After a restore that took one version out of two Entries, emptying one:
\* one container left, with the one file of the version left.
C14_Witness ==
    /\ ~run.mishap
    /\ ~run.clash
    /\ run.op = "restore"
    /\ run.pc = "acted"
    /\ Len(run.popped) = 2
    /\ Len(entries) = 1
    /\ Len(entries[1].history) = 1
    /\ store[entries[1].uuid].files = {entries[1].history[1]}

\* The index the cache file holds and the storage root agree: every version
\* the file lists has its file, every file is listed.
PersistedAgrees(content, st) ==
    LET es == LoadEntries(content) IN
    /\ \A i \in 1..Len(es) : \A j \in 1..Len(es[i].history) :
          Exists(st, es[i].uuid, es[i].history[j])
    /\ \A u \in Uuids : \A v \in st[u].files :
          \E i \in 1..Len(es) : es[i].uuid = u /\ Occurs(es[i].history, v)

\* C15: when a run has ended, in success or with a reported error, the index
\* in the cache file and the storage root agree.
C15_PersistedIndexAgreesWithStorage ==
    run.pc \in {"done", "failed"} => PersistedAgrees(file.content, store)

C18_MissingVersionStopsRestore ==
    run.op = "restore" =>
        LET flat == Flat(run.popped)
            moved == Renames(run.log)
        IN /\ run.ret = "MissingTarget" =>
                /\ Len(moved) < Len(flat)
                /\ moved = SubSeq(flat, 1, Len(moved))
                /\ flat[Len(moved) + 1].version = run.arg
                /\ ~Exists(store, flat[Len(moved) + 1].uuid, run.arg)
                /\ \A m \in 1..Len(run.log) :
                      run.log[m].t = "remove_dir" =>
                          /\ run.log[m].uuid # flat[Len(moved) + 1].uuid
                          /\ \A k \in (Len(moved) + 1)..Len(flat) :
                                flat[k].uuid # run.log[m].uuid
           /\ run.ret = "ok" => moved = flat

\* The second of three popped versions had no file: the first one was moved,
\* the third one is still in its container.
C18_Witness ==
    /\ run.op = "restore"
    /\ run.ret = "MissingTarget"
    /\ Len(Flat(run.popped)) = 3
    /\ Len(Renames(run.log)) = 1
    /\ Exists(store, Flat(run.popped)[3].uuid, Flat(run.popped)[3].version)

\* C19: in a restore that returns Ok, the container of a snapshot is removed
\* if and only if the snapshot is flagged emptied, and after the last move
\* out of it; the container of a snapshot not flagged is still there and
\* holds the files it held before less the versions moved.
C19_ContainerRemovedIffEmptied ==
    [][(run'.op = "restore" /\ run.pc = "main" /\ run'.ret = "ok") =>
          \A n \in 1..Len(run'.popped) :
              LET e == run'.popped[n].entry
                  removals == {m \in 1..Len(run'.log) :
                                  /\ run'.log[m].t = "remove_dir"
                                  /\ run'.log[m].uuid = e.uuid}
                  moves == {m \in 1..Len(run'.log) :
                               /\ run'.log[m].t = "rename"
                               /\ run'.log[m].uuid = e.uuid}
              IN IF run'.popped[n].empty
                 THEN /\ Cardinality(removals) = 1
                      /\ \A r \in removals : \A m \in moves : m < r
                      /\ ~store'[e.uuid].dir
                      /\ ~HasKey(entries', e.key)
                 ELSE /\ removals = {}
                      /\ store'[e.uuid].dir
                      /\ store'[e.uuid].files
                            = store[e.uuid].files \ Range(e.history)
                      /\ HistoryOf(entries', e.key) # <<>> ]_vars

\* The newest version restored from two Entries: the container of the one
\* that had a single version is gone, the other one keeps its older file.
C19_Witness ==
    /\ run.op = "restore"
    /\ run.ret = "ok"
    /\ Len(run.popped) = 2
    /\ \E n, m \in 1..2 :
          /\ run.popped[n].empty
          /\ ~store[run.popped[n].entry.uuid].dir
          /\ ~run.popped[m].empty
          /\ store[run.popped[m].entry.uuid].files # {}

\* C20: on a fresh installation, after /x/a was deleted twice the index
\* holds one Entry with two versions; a restore of "a" without selector then
\* moves only the second version, to /x/a, and leaves the first in the
\* history; a restore of "a" with "all" then moves the first version to /x/a
\* and removes the container, and the index holds no Entry.
C20_DeleteTwiceRestoreTwice ==
    [][ /\ run'.story = "deleted twice"
            => /\ Len(entries') = 1
               /\ entries'[1].key = KeyNew(FileName(StoryTarget), StoryTarget)
               /\ Len(entries'[1].history) = 2
        /\ (run.story = "deleted twice" /\ run'.story = "restored newest")
            => /\ run'.log = <<RenameEvent(entries[1].uuid,
                                           entries[1].history[2], StoryTarget)>>
               /\ entries' = <<[entries[1] EXCEPT
                                   !.history = <<entries[1].history[1]>>]>>
               /\ store'[entries[1].uuid].files = {entries[1].history[1]}
        /\ run'.story = "restored newest"
            => Len(entries') = 1 /\ Len(entries'[1].history) = 1
        /\ (run.story = "restored newest" /\ run'.story = "restored all")
            => /\ Renames(run'.log)
                    = <<[uuid |-> entries[1].uuid,
                         version |-> entries[1].history[1]]>>
               /\ run'.log[1].dest = StoryTarget
               /\ entries' = <<>>
               /\ ~store'[entries[1].uuid].dir
        /\ run'.story = "restored all"
            => entries' = <<>> /\ store' = EmptyStore ]_vars

\* The whole scenario done and committed: no Entry, no container.
C20_Witness ==
    /\ run.story = "restored all"
    /\ run.pc = "done"
    /\ entries = <<>>
    /\ store = EmptyStore
    /\ file.content = Serialize(<<>>)

\* The lines of a listing that show an entry of the name `name`.
EntryLines(lines, name) ==
    {n \in 1..Len(lines) : lines[n].t \in {"name", "entry"} /\ lines[n].name = name}

NamedEntries(es, name) == {i \in 1..Len(es) : es[i].key.name = name}

\* C21: a delete of a file whose Key is not in the index adds an Entry of its
\* own, with a uuid no other Entry has, also when an Entry of the same name
\* and another origin is there; a listing whose pattern is a name shows every
\* Entry of that name, one line each, with its origin.
C21_SameNameTwoOrigins ==
    [][ /\ ( /\ run'.op = "delete"
             /\ run.pc \in {"main", "deleting"}
             /\ run'.pushed # <<>>
             /\ ~HasKey(entries, run'.pushed[1].key) )
            => /\ Len(entries') = Len(entries) + 1
               /\ entries'[Len(entries')].key = run'.pushed[1].key
               /\ entries'[Len(entries')].uuid = run'.pushed[1].uuid
               /\ run'.pushed[1].uuid \notin UsedUuids(entries)
               /\ \A i \in 1..Len(entries) : entries'[i] = entries[i]
        /\ (run'.op = "list" /\ run.pc = "main" /\ run'.ret = "ok")
            => \A name \in Names :
                  IsMatch(run'.arg, name) =>
                      /\ Cardinality(EntryLines(run'.lines, name))
                            = Cardinality(NamedEntries(entries, name))
                      /\ \A i \in NamedEntries(entries, name) :
                            \E n \in EntryLines(run'.lines, name) :
                                run'.lines[n].origin
                                    \in {"", entries[i].key.origin} ]_vars

\* /x/a and /y/a deleted, then listed with the pattern "a": two Entries of
\* the name "a" with two containers, two lines.
C21_Witness ==
    /\ run.op = "list"
    /\ run.ret = "ok"
    /\ run.arg = "a"
    /\ Len(entries) = 2
    /\ entries[1].key.name = "a"
    /\ entries[2].key.name = "a"
    /\ entries[1].key.origin # entries[2].key.origin
    /\ entries[1].uuid # entries[2].uuid
    /\ \E n, m \in 1..Len(run.lines) :
          /\ run.lines[n].origin = "/x/a"
          /\ run.lines[m].origin = "/y/a"

\* The snapshots of a pop that hold a version: the Entries restore acts on.
ActedOn(popped) == {n \in 1..Len(popped) : popped[n].entry.history # <<>>}

\* C22: a restore that returns Ok has acted on one Entry at most (a restore
\* by name alone, with two Entries of that name in the index, acts on one of
\* them or returns an error).
C22_RestoreByNameActsOnOne ==
    (run.op = "restore" /\ run.ret = "ok")
        => Cardinality(ActedOn(run.popped)) <= 1

\* C23: an empty that returns Ok was called on an index with Entries, leaves
\* the index without Entries, and none of the containers of the Entries that
\* were in the index exists any more.
C23_EmptyRemovesEverything ==
    [][(run'.op = "empty" /\ run.pc = "main" /\ run'.ret = "ok") =>
          /\ entries # <<>>
          /\ entries' = <<>>
          /\ \A i \in 1..Len(entries) : ~store'[entries[i].uuid].dir
          /\ \A i \in 1..Len(entries) :
                \E n \in 1..Len(run'.popped) :
                    run'.popped[n].entry = entries[i] ]_vars

\* Two Entries with three versions emptied: no Entry, no container.
C23_Witness ==
    /\ run.op = "empty"
    /\ run.ret = "ok"
    /\ Len(run.popped) = 2
    /\ TotalVersions([n \in 1..2 |-> run.popped[n].entry]) = 3
    /\ entries = <<>>
    /\ store = EmptyStore

\* C24: when the move into storage fails after the push, delete returns an
\* error, main stops, no file has come into the storage root, and the index
\* in memory holds the pushed version at the end of the history of its Key.
C24_FailedMoveKeepsPush ==
    [][( /\ run'.op = "delete"
         /\ run.pc \in {"main", "deleting"}
         /\ run'.pushed # <<>>
         /\ ~run'.pushed[1].moved ) =>
          LET p == run'.pushed[1] IN
          /\ run'.ret = "Unknown"
          /\ run'.pc = "failed"
          /\ HistoryOf(entries', p.key)
                = HistoryOf(entries, p.key) \o <<p.version>>
          /\ \E i \in 1..Len(entries') :
                entries'[i].key = p.key /\ entries'[i].uuid = p.uuid
          /\ \A u \in Uuids : store'[u].files = store[u].files ]_vars

\* The second delete of /x/a failed at the move: two versions in the index,
\* one file in the container.
C24_Witness ==
    /\ run.op = "delete"
    /\ run.pc = "failed"
    /\ run.pushed # <<>>
    /\ ~run.pushed[1].moved
    /\ HistoryOf(entries, run.pushed[1].key) = <<"t10", "t2">>
    /\ store[run.pushed[1].uuid].files = {"t10"}

\* C25: a delete of a batch that returns an error ends the run: one error
\* line is printed, the Entries and files the earlier deletes of the batch
\* brought in are still there, and after it nothing is pushed or moved, no
\* delete is tried again and no commit is made.
C25_FirstFailureAbortsBatch ==
    [][ /\ ( /\ run'.op = "delete"
             /\ run.pc \in {"main", "deleting"}
             /\ run'.ret # "ok" )
            => /\ run'.pc = "failed"
               /\ Len(ProcessExit(run'.ret).printed) = 1
               /\ \A u \in Uuids :
                     /\ store[u].dir => store'[u].dir
                     /\ store[u].files \subseteq store'[u].files
               /\ \A i \in 1..Len(entries) :
                     IsSubSeq(entries[i].history, entries'[i].history)
        /\ (run.pc = "failed" /\ run'.op # "new")
            => /\ entries' = entries
               /\ store' = store
               /\ file' = file
               /\ run'.op \notin {"delete", "end"} ]_vars

\* The third file of a batch did not exist: the two before it are in the
\* index and in the storage root, nothing was committed.
C25_Witness ==
    /\ run.op = "delete"
    /\ run.pc = "failed"
    /\ run.pushed = <<>>
    /\ run.atLoad = <<>>
    /\ file.content = <<>>
    /\ Len(entries) = 2
    /\ \A i \in 1..2 : store[entries[i].uuid].files = Range(entries[i].history)

\* C26: a run in which a step returned an error prints one line and ends
\* with an exit status other than 0.
C26_ErrorExitsNonZero ==
    run.pc = "failed"
        => /\ Len(ProcessExit(run.ret).printed) = 1
           /\ ProcessExit(run.ret).status # 0

\* C31: the versions of the history of an Entry are pairwise distinct.
C31_VersionsPairwiseDistinct ==
    \A i \in 1..Len(entries) :
        \A j, k \in 1..Len(entries[i].history) :
            j # k => entries[i].history[j] # entries[i].history[k]

\* C34: an empty on an index without Entries returns MissingTargetPredicate
\* and touches nothing; the run prints one error line and ends without the
\* commit, the cache file holding what it held at load.
C34_EmptyOnEmptyIndexFails ==
    [][ /\ (run'.op = "empty" /\ run.pc = "main" /\ entries = <<>>)
            => /\ run'.ret = "MissingTargetPredicate"
               /\ run'.pc = "failed"
               /\ Len(ProcessExit(run'.ret).printed) = 1
               /\ entries' = <<>>
               /\ store' = store
               /\ file' = file
        /\ (run.op = "empty" /\ run.ret # "ok")
            => run'.op \notin {"end"} /\ file' = file ]_vars

\* The trash was filled, emptied by a restore of everything and committed;
\* the empty of the next run failed.
C34_Witness ==
    /\ run.op = "empty"
    /\ run.ret = "MissingTargetPredicate"
    /\ run.pc = "failed"
    /\ entries = <<>>
    /\ run.atLoad = Serialize(<<>>)
    /\ file.content = run.atLoad

\* C35: a restore with an exact version as selector, when Entries of the
\* name are in the index and none of them holds that version, returns Ok,
\* moves no file, removes no container and leaves the index as it was.
C35_UnknownVersionIsSilentNoOp ==
    [][( /\ run'.op = "restore"
         /\ run.pc = "main"
         /\ run'.sel.some
         /\ run'.sel.v \notin {"all", "latest"}
         /\ Len(run'.popped) > 0
         /\ \A n \in 1..Len(run'.popped) :
               ~Occurs(HistoryOf(entries, run'.popped[n].entry.key),
                       run'.sel.v) ) =>
          /\ run'.ret = "ok"
          /\ run'.log = <<>>
          /\ \A n \in 1..Len(run'.popped) :
                /\ run'.popped[n].entry.history = <<>>
                /\ ~run'.popped[n].empty
          /\ entries' = entries
          /\ store' = store ]_vars

\* restore a --version t2 with two Entries named a that hold t10 only.
C35_Witness ==
    /\ run.op = "restore"
    /\ run.ret = "ok"
    /\ run.sel = Some("t2")
    /\ Len(run.popped) = 2
    /\ run.log = <<>>
    /\ Len(entries) = 2
    /\ \A i \in 1..2 : ~Occurs(entries[i].history, "t2")
    /\ \A i \in 1..2 : store[entries[i].uuid].files = Range(entries[i].history)

\* The renames of a log whose destination is the path `o`.
MovesOnto(log, o) ==
    {m \in 1..Len(log) : log[m].t = "rename" /\ log[m].dest = o}

\* C36: restore moves a version onto the origin path whether or not a file
\* is there: after the move the path holds the version moved, and the file
\* restore had put there before is replaced and lost.  An origin path no
\* version was moved onto is left as it was.
C36_RestoreReplacesDestination ==
    [][(run'.op = "restore" /\ run.pc = "main") =>
          \A o \in Origins :
              IF MovesOnto(run'.log, o) = {}
              THEN outside'[o] = outside[o]
              ELSE /\ \E m \in MovesOnto(run'.log, o) :
                         /\ \A k \in MovesOnto(run'.log, o) : k <= m
                         /\ outside'[o] = run'.log[m].version
                   /\ outside[o] # "none"
                         => \E n \in 1..Len(run'.lost) :
                               run'.lost[n] = [path |-> o,
                                               content |-> outside[o]] ]_vars

\* The two versions of /x/a restored one at a time: "t2", the newer one,
\* was at /x/a and has been replaced by "t10"; the trash is empty, so "t2"
\* is nowhere any more.
C36_Witness ==
    /\ run.op = "restore"
    /\ run.ret = "ok"
    /\ run.sel = None
    /\ run.lost = <<[path |-> "/x/a", content |-> "t2"]>>
    /\ outside["/x/a"] = "t10"
    /\ entries = <<>>
    /\ store = EmptyStore

---------------------------------------------------------------------------
(* Properties of two processes on one home directory (specification        *)
(* SpecTwo)                                                                *)

\* The versions the index `es` lists, with their containers.
Listed(es) ==
    UNION {{[uuid |-> es[i].uuid, version |-> es[i].history[j]] :
                j \in 1..Len(es[i].history)} : i \in 1..Len(es)}

\* The version files in the storage root.
Stored(st) ==
    UNION {{[uuid |-> u, version |-> v] : v \in st[u].files} : u \in Uuids}

\* C32: each of two processes on one home directory loads the index from
\* the cache file as it finds it, changes only its own copy, and commits by
\* making its own copy the whole content of the file, whatever the other
\* process has loaded, moved or committed meanwhile; nothing a process does
\* takes a moved file out of the storage root again.  (So the commit of one
\* can wipe out what the other committed: the witness.)
C32_EachCommitsItsOwnSnapshot ==
    [][IF peer' # peer
       THEN /\ entries' = peer.entries
            /\ run' = peer.run
            /\ file' = file
            /\ store' = store
       ELSE /\ (run'.op = "new" /\ run.pc = "idle")
                => /\ entries' = (IF Deserialize(file.content).ok
                                  THEN Deserialize(file.content).val
                                  ELSE <<>>)
                   /\ file'.content = file.content
                   /\ store' = store
            /\ (run'.op = "delete" /\ run.pc \in {"main", "deleting"})
                => /\ file' = file
                   /\ Stored(store) \subseteq Stored(store')
            /\ (run'.op = "end" /\ run.pc \in {"deleting", "acted"})
                => /\ Deserialize(file'.content).ok
                   /\ Deserialize(file'.content).val = entries
                   /\ entries' = entries
                   /\ store' = store ]_vars

\* A lost update: both processes loaded the empty index, each deleted a
\* file and committed.  The cache file holds the index of the one that
\* committed last; the version the other one committed is not in it, and
\* its file is still in the storage root.
C32_Witness ==
    /\ run.pc = "done"
    /\ peer.run.pc = "done"
    /\ run.atLoad = peer.run.atLoad
    /\ LoadEntries(file.content) = entries
    /\ Listed(peer.entries) # {}
    /\ Listed(peer.entries) \cap Listed(entries) = {}
    /\ Listed(peer.entries) \subseteq Stored(store)
    /\ Listed(entries) \subseteq Stored(store)

====
